---------------------------- MODULE Spec2Model ----------------------------
(***************************************************************************)
(* Model of french_balance_bot (src/main.py): the balance table kept in    *)
(* PostgreSQL by BalanceDB and the three chat commands of BalanceBot that  *)
(* read and change it (/balance, /update_balance, /delete_balance).        *)
(*                                                                         *)
(* A text is a sequence of one-character strings, so that int(), strip(),  *)
(* split("-") and strptime("%Y-%m-%d") are computed character by           *)
(* character.  A date is a tuple <<year, month, day>>.  A Python value     *)
(* that may be None, a str or an int is a record tagged by t.              *)
(***************************************************************************)
EXTENDS Integers, Sequences, FiniteSets, TLC

(***************************************************************************)
(* Bounds of the model.                                                    *)
(***************************************************************************)
\* most rows the table holds (update_balance is not taken beyond it)
MaxEntries == 3
\* most connections left open at once (a leaking command is not taken beyond it)
MaxOpenConns == 1

\* the dates commands name and the table holds: two days of one month, the
\* same two days a year earlier, and a day of the month before
Dates == {<<2024, 2, 1>>, <<2024, 2, 2>>, <<2025, 1, 2>>, <<2025, 2, 1>>, <<2025, 2, 2>>}
\* the days on which commands are handled
RunDates == {<<2025, 1, 2>>, <<2025, 2, 1>>}

(***************************************************************************)
(* Texts.                                                                  *)
(***************************************************************************)
DigitChars == <<"0", "1", "2", "3", "4", "5", "6", "7", "8", "9">>

IsDigit(c) == \E i \in 1..10 : DigitChars[i] = c

DigitVal(c) == (CHOOSE i \in 1..10 : DigitChars[i] = c) - 1

AllDigits(s) == Len(s) > 0 /\ \A i \in 1..Len(s) : IsDigit(s[i])

RECURSIVE DigitsVal(_)
DigitsVal(s) ==
    IF s = <<>> THEN 0
    ELSE DigitsVal(SubSeq(s, 1, Len(s) - 1)) * 10 + DigitVal(s[Len(s)])

\* str.strip(): leading and trailing blanks removed
RECURSIVE Strip(_)
Strip(s) ==
    IF s = <<>> THEN s
    ELSE IF s[1] = " " THEN Strip(Tail(s))
    ELSE IF s[Len(s)] = " " THEN Strip(SubSeq(s, 1, Len(s) - 1))
    ELSE s

\* str.split("-"): the pieces between the dashes; one (empty) piece for ""
RECURSIVE SplitFrom(_, _)
SplitFrom(s, cur) ==
    IF s = <<>> THEN <<cur>>
    ELSE IF s[1] = "-" THEN <<cur>> \o SplitFrom(Tail(s), <<>>)
    ELSE SplitFrom(Tail(s), Append(cur, s[1]))

Split(s) == SplitFrom(s, <<>>)

\* int(str): blanks stripped, an optional sign, then decimal digits;
\* anything else is a ValueError
IntOfStr(s) ==
    LET t == Strip(s)
        signed == Len(t) > 0 /\ t[1] \in {"+", "-"}
        body == IF signed THEN Tail(t) ELSE t
    IN  IF AllDigits(body)
        THEN [ok |-> TRUE,
              val |-> IF signed /\ t[1] = "-" THEN 0 - DigitsVal(body) ELSE DigitsVal(body)]
        ELSE [ok |-> FALSE, val |-> 0]

\* Python values passed as month
PyNone == [t |-> "none"]
PyStr(s) == [t |-> "str", s |-> s]
PyInt(n) == [t |-> "int", n |-> n]

\* truth value of a Python value: None, "" and 0 are false
Truthy(v) ==
    CASE v.t = "none" -> FALSE
      [] v.t = "str" -> Len(v.s) > 0
      [] v.t = "int" -> v.n # 0

\* int(v) for a str or an int
PyIntOf(v) == IF v.t = "int" THEN [ok |-> TRUE, val |-> v.n] ELSE IntOfStr(v.s)

(***************************************************************************)
(* Calendar.                                                               *)
(***************************************************************************)
IsLeap(y) == y % 4 = 0 /\ (y % 100 # 0 \/ y % 400 = 0)

DaysInMonth(y, m) ==
    CASE m \in {1, 3, 5, 7, 8, 10, 12} -> 31
      [] m \in {4, 6, 9, 11} -> 30
      [] OTHER -> IF IsLeap(y) THEN 29 ELSE 28

RECURSIVE DaysBeforeMonth(_, _)
DaysBeforeMonth(y, m) ==
    IF m = 1 THEN 0 ELSE DaysBeforeMonth(y, m - 1) + DaysInMonth(y, m - 1)

\* date.toordinal()
ToOrdinal(dt) ==
    LET y == dt[1] - 1
    IN  y * 365 + (y \div 4) - (y \div 100) + (y \div 400)
        + DaysBeforeMonth(dt[1], dt[2]) + dt[3]

\* date.weekday(): Monday is 0
Weekday(dt) == (ToOrdinal(dt) + 6) % 7

\* strftime("%A")
DayName(dt) ==
    <<"Monday", "Tuesday", "Wednesday", "Thursday", "Friday", "Saturday",
      "Sunday">>[Weekday(dt) + 1]

\* the day-name table (the Russian names, transliterated)
DAYS_RUSSIAN ==
    [Monday |-> "Ponedelnik", Tuesday |-> "Vtornik", Wednesday |-> "Sreda",
     Thursday |-> "Chetverg", Friday |-> "Pyatnitsa", Saturday |-> "Subbota",
     Sunday |-> "Voskresenye"]

DateLess(a, b) ==
    \/ a[1] < b[1]
    \/ a[1] = b[1] /\ a[2] < b[2]
    \/ a[1] = b[1] /\ a[2] = b[2] /\ a[3] < b[3]

DateLeq(a, b) == a = b \/ DateLess(a, b)

NoDate == [ok |-> FALSE, date |-> <<0, 0, 0>>]

\* year, month and day name a day of the calendar
IsoYMD(y, m, d) ==
    IF y >= 1 /\ m \in 1..12 /\ d >= 1 /\ d <= DaysInMonth(y, m)
    THEN [ok |-> TRUE, date |-> <<y, m, d>>]
    ELSE NoDate

\* the pieces are a year of four digits, a month and a day of one or two
IsoParts(p) ==
    IF /\ Len(p) = 3
       /\ Len(p[1]) = 4 /\ AllDigits(p[1])
       /\ Len(p[2]) \in 1..2 /\ AllDigits(p[2])
       /\ Len(p[3]) \in 1..2 /\ AllDigits(p[3])
    THEN IsoYMD(DigitsVal(p[1]), DigitsVal(p[2]), DigitsVal(p[3]))
    ELSE NoDate

\* a date written year-month-day
IsoDate(s) == IsoParts(Split(s))

\* datetime.strptime(date, "%Y-%m-%d").date(); not ok is a ValueError
StrpTime(s) == IsoDate(s)

\* the store reading a text as a DATE in "WHERE date = %s"; not ok is the
\* store's invalid-date error
PgDateIn(s) == IsoDate(s)


(***************************************************************************)
(* The state.                                                              *)
(***************************************************************************)
VARIABLES
    table,          \* the rows of the store's table balance
    today,          \* the calendar date
    CURRENT_MONTH,  \* the month read once, when the module was loaded
    dbUp,           \* whether psycopg2.connect succeeds
    openConns,      \* connections opened and not closed
    last            \* what the command handled last did (Idle: none since
                    \* the date or the store last changed)

vars == <<table, today, CURRENT_MONTH, dbUp, openConns, last>>

(***************************************************************************)
(* The store: table balance (date DATE PRIMARY KEY, day_of_week, price,    *)
(* balance) and the statements BalanceDB runs on it.                       *)
(***************************************************************************)
Price == 20

HasDate(tbl, dt) == \E r \in tbl : r.date = dt

\* InsertRow done wrong: the balance stored with every later row is raised by
\* the new row's price (the bookkeeping add_balance_entry's docstring says it
\* no longer does)
InsertRowMutant(tbl, row) ==
    IF HasDate(tbl, row.date) THEN [ok |-> FALSE, tbl |-> tbl]
    ELSE [ok |-> TRUE,
          tbl |-> {IF DateLess(row.date, r.date)
                   THEN [r EXCEPT !.balance = r.balance + row.price] ELSE r
                   : r \in tbl} \cup {row}]

\* INSERT INTO balance: the primary key refuses a second row for a date
InsertRow(tbl, row) ==
    IF HasDate(tbl, row.date) THEN [ok |-> FALSE, tbl |-> tbl]
    ELSE [ok |-> TRUE, tbl |-> tbl \cup {row}]

\* SelectDate done wrong: the lookup finds no row
SelectDateMutant(tbl, dt) == {}

\* SELECT date FROM balance WHERE date = %s; fetchone()

SelectDate(tbl, dt) == {r \in tbl : r.date = dt}

\* DeleteRows done wrong: every row of the date's month of the year goes
DeleteRowsMutant(tbl, dt) == {r \in tbl : r.date[2] # dt[2]}

\* DELETE FROM balance WHERE date = %s

DeleteRows(tbl, dt) == {r \in tbl : r.date # dt}

\* WHERE EXTRACT(MONTH FROM date) = %s
WhereMonth(tbl, m) == {r \in tbl : r.date[2] = m}

\* DateTruncMonth done wrong: the year is dropped, as EXTRACT(MONTH FROM date)
\* would
DateTruncMonthMutant(dt) == <<0, dt[2], 1>>

\* DATE_TRUNC('month', date): the first day of the date's month

DateTruncMonth(dt) == <<dt[1], dt[2], 1>>

RECURSIVE SumPrice(_)
SumPrice(rows) ==
    IF rows = {} THEN 0
    ELSE LET r == CHOOSE x \in rows : TRUE
         IN  r.price + SumPrice(rows \ {r})

\* SUM(price) OVER (PARTITION BY DATE_TRUNC('month', date) ORDER BY date),
\* over the rows the WHERE clause kept
MonthlyBalance(rows, r) ==
    SumPrice({q \in rows : /\ DateTruncMonth(q.date) = DateTruncMonth(r.date)
                           /\ DateLeq(q.date, r.date)})

\* OrderByDate done wrong: latest date first
RECURSIVE OrderByDateMutant(_)
OrderByDateMutant(rows) ==
    IF rows = {} THEN <<>>
    ELSE LET r == CHOOSE x \in rows : \A q \in rows : DateLeq(q.date, x.date)
         IN  <<r>> \o OrderByDateMutant(rows \ {r})

\* ORDER BY date
RECURSIVE OrderByDate(_)
OrderByDate(rows) ==
    IF rows = {} THEN <<>>
    ELSE LET r == CHOOSE x \in rows : \A q \in rows : DateLeq(x.date, q.date)
         IN  <<r>> \o OrderByDate(rows \ {r})

\* the SELECT of get_all_balance_entries; fetchall()
MonthQuery(tbl, m) ==
    LET kept == WhereMonth(tbl, m)
    IN  OrderByDate({[date |-> r.date, day_of_week |-> r.day_of_week,
                      price |-> r.price,
                      monthly_balance |-> MonthlyBalance(kept, r)] : r \in kept})

(***************************************************************************)
(* BalanceDB.  Each method gives: raised (the exception leaving it, or     *)
(* "none"), ret (what it returns), tbl (the table afterwards), calls (the  *)
(* get_connection calls made) and leak (connections opened, not closed).   *)
(***************************************************************************)
NoRet == [kind |-> "none", rows |-> <<>>, success |-> FALSE, msg |-> "none"]

RowsRet(rows) == [NoRet EXCEPT !.kind = "rows", !.rows = rows]

\* a str returned in place of rows
TextRet(msg) == [NoRet EXCEPT !.kind = "text", !.msg = msg]

\* a (success, message) pair
PairRet(success, msg) == [NoRet EXCEPT !.kind = "pair", !.success = success, !.msg = msg]

Returns(ret, tbl, calls) ==
    [raised |-> "none", ret |-> ret, tbl |-> tbl, calls |-> calls, leak |-> 0]

Raises(exc, tbl, calls, leak) ==
    [raised |-> exc, ret |-> NoRet, tbl |-> tbl, calls |-> calls, leak |-> leak]

\* lines 89-111: the query, once the month is known
GetAllMonth(tbl, p, up) ==
    IF ~p.ok THEN Returns(TextRet("month_format"), tbl, 0)
    ELSE IF p.val < 1 \/ p.val > 12 THEN Returns(TextRet("month_range"), tbl, 0)
    ELSE IF ~up THEN Raises("OperationalError", tbl, 1, 0)
    ELSE Returns(RowsRet(MonthQuery(tbl, p.val)), tbl, 1)

get_all_balance_entries(tbl, month, now, up) ==
    GetAllMonth(tbl,
                IF month.t = "none" \/ ~Truthy(month)
                THEN [ok |-> TRUE, val |-> now[2]] ELSE PyIntOf(month),
                up)

\* lines 138-148: the INSERT, commit and close
AddInsert(tbl, ins) ==
    IF ~ins.ok THEN Raises("UniqueViolation", tbl, 1, 1)
    ELSE Returns(PairRet(TRUE, "updated"), ins.tbl, 1)

\* the values inserted for a date
NewRow(dt) ==
    [date |-> dt, day_of_week |-> DAYS_RUSSIAN[DayName(dt)],
     price |-> Price, balance |-> Price]

\* lines 128-148: the connection is open and the date has been read
AddParsed(tbl, p) ==
    IF ~p.ok THEN Raises("ValueError", tbl, 1, 1)
    ELSE IF SelectDate(tbl, p.date) # {}
         THEN Returns(PairRet(FALSE, "already_updated"), tbl, 1)
    ELSE AddInsert(tbl, InsertRow(tbl, NewRow(p.date)))

add_balance_entry(tbl, date, now, up) ==
    IF ~up THEN Raises("OperationalError", tbl, 1, 0)
    ELSE AddParsed(tbl, IF ~Truthy(date) THEN [ok |-> TRUE, date |-> now]
                        ELSE StrpTime(date.s))

\* lines 170-180: the connection is open and the store has read the date
DeleteParsed(tbl, p) ==
    IF ~p.ok THEN Returns(PairRet(FALSE, "delete_error"), tbl, 1)
    ELSE IF SelectDate(tbl, p.date) = {}
         THEN Returns(PairRet(FALSE, "not_found"), tbl, 1)
    ELSE Returns(PairRet(TRUE, "deleted"), DeleteRows(tbl, p.date), 1)

\* with the store unreachable the except block reads conn, never bound
delete_balance_entry_by_date(tbl, date, up) ==
    IF date = <<>> THEN Returns(PairRet(FALSE, "date_format"), tbl, 0)
    ELSE IF ~up THEN Raises("UnboundLocalError", tbl, 1, 0)
    ELSE DeleteParsed(tbl, PgDateIn(date))

(***************************************************************************)
(* BalanceBot.  format_balance_table gives raised, text ("table" with the  *)
(* rows written in it as shown, or "no_data"), calls and leak.             *)
(***************************************************************************)
Formats(text, shown, calls) ==
    [raised |-> "none", text |-> text, shown |-> shown, calls |-> calls, leak |-> 0]

FormatRaises(exc, calls, leak) ==
    [raised |-> exc, text |-> "none", shown |-> <<>>, calls |-> calls, leak |-> leak]

\* lines 295-307: a str in place of rows is taken character by character by
\* the loop, and row[1] of a one-character str is an IndexError
FormatEntries(g) ==
    IF g.raised # "none" THEN FormatRaises(g.raised, g.calls, g.leak)
    ELSE IF g.ret.kind = "rows" /\ g.ret.rows = <<>>
         THEN Formats("no_data", <<>>, g.calls)
    ELSE IF g.ret.kind = "text" THEN FormatRaises("IndexError", g.calls, g.leak)
    ELSE Formats("table", g.ret.rows, g.calls)

\* lines 292-294: month_num is known when p.ok; int(month) raised otherwise
FormatMonth(tbl, p, now, up) ==
    IF ~p.ok THEN FormatRaises("ValueError", 0, 0)
    ELSE FormatEntries(get_all_balance_entries(tbl, PyInt(p.val), now, up))

format_balance_table(tbl, month, now, up, cm) ==
    FormatMonth(tbl,
                IF Truthy(month) THEN PyIntOf(month) ELSE [ok |-> TRUE, val |-> cm],
                now, up)

(***************************************************************************)
(* What handling a command did: the reply sent ("none" when an exception   *)
(* left the handler before message.reply), the message and rows in it,     *)
(* the exception that left the handler, the table before the command, the  *)
(* get_connection calls and the connections left open.  A handler gives    *)
(* this (h) and the table it leaves (tbl).                                 *)
(***************************************************************************)
Idle ==
    [cmd |-> "none", arg |-> <<>>, reply |-> "none", msg |-> "none",
     shown |-> <<>>, escaped |-> "none", entries |-> NoRet, before |-> {},
     calls |-> 0, leak |-> 0]

Handled(cmd, arg, tbl) == [Idle EXCEPT !.cmd = cmd, !.arg = arg, !.before = tbl]

\* lines 244-259, given what get_all_balance_entries (g) and
\* format_balance_table (f) do
SendReply(h, g, f) ==
    IF g.raised # "none"
    THEN [h EXCEPT !.escaped = g.raised, !.calls = g.calls, !.leak = g.leak]
    ELSE IF g.ret.kind = "rows" /\ g.ret.rows = <<>>
         THEN [h EXCEPT !.entries = g.ret, !.reply = "warn", !.msg = "balance_not_found",
                        !.calls = g.calls, !.leak = g.leak]
    ELSE IF f.raised # "none"
         THEN [h EXCEPT !.entries = g.ret, !.escaped = f.raised,
                        !.calls = g.calls + f.calls, !.leak = g.leak + f.leak]
    ELSE [h EXCEPT !.entries = g.ret, !.reply = "text", !.msg = f.text,
                   !.shown = f.shown, !.calls = g.calls + f.calls,
                   !.leak = g.leak + f.leak]

SendMonth(tbl, arg, month, now, up, cm) ==
    [h |-> SendReply(Handled("balance", arg, tbl),
                     get_all_balance_entries(tbl, month, now, up),
                     format_balance_table(tbl, month, now, up, cm)),
     tbl |-> tbl]

\* /balance
send_balance(tbl, arg, now, up, cm) ==
    SendMonth(tbl, arg, IF Strip(arg) # <<>> THEN PyStr(Strip(arg)) ELSE PyNone,
              now, up, cm)

\* the second piece of a text split at its dashes, where there is one
Piece2(parts) == IF Len(parts) >= 2 THEN [ok |-> TRUE, s |-> parts[2]]
                 ELSE [ok |-> FALSE, s |-> <<>>]

\* lines 273-278, given what add_balance_entry (a), split (m) and
\* format_balance_table (f) do: every exception is answered with the error
\* reply
UpdateReply(h, a, m, f) ==
    IF a.raised # "none"
    THEN [h EXCEPT !.reply = "error", !.msg = a.raised, !.calls = a.calls,
                   !.leak = a.leak]
    ELSE IF ~m.ok
         THEN [h EXCEPT !.reply = "error", !.msg = "IndexError", !.calls = a.calls,
                        !.leak = a.leak]
    ELSE IF f.raised # "none"
         THEN [h EXCEPT !.reply = "error", !.msg = f.raised,
                        !.calls = a.calls + f.calls, !.leak = a.leak + f.leak]
    ELSE IF a.ret.success
         THEN [h EXCEPT !.reply = "ok", !.msg = a.ret.msg, !.shown = f.shown,
                        !.calls = a.calls + f.calls, !.leak = a.leak + f.leak]
    ELSE [h EXCEPT !.reply = "warn", !.msg = a.ret.msg,
                   !.calls = a.calls + f.calls, !.leak = a.leak + f.leak]

\* lines 266-271, given what add_balance_entry (a) does
UpdateAdded(tbl, arg, a, m, now, up, cm) ==
    [h |-> UpdateReply(Handled("update_balance", arg, tbl), a, m,
                       format_balance_table(a.tbl, IF m.s # <<>> THEN PyStr(m.s) ELSE PyNone,
                                            now, up, cm)),
     tbl |-> a.tbl]

UpdateDate(tbl, arg, date_arg, now, up, cm) ==
    UpdateAdded(tbl, arg,
                add_balance_entry(tbl, IF date_arg # <<>> THEN PyStr(date_arg) ELSE PyNone,
                                  now, up),
                IF date_arg # <<>> THEN Piece2(Split(date_arg))
                ELSE [ok |-> TRUE, s |-> <<>>],
                now, up, cm)

\* /update_balance
update_balance(tbl, arg, now, up, cm) == UpdateDate(tbl, arg, Strip(arg), now, up, cm)

\* lines 284-289, given what delete_balance_entry_by_date (d), split (m) and
\* format_balance_table (f) do
DeleteReply(h, d, m, f) ==
    IF d.raised # "none"
    THEN [h EXCEPT !.escaped = d.raised, !.calls = d.calls, !.leak = d.leak]
    ELSE IF ~m.ok
         THEN [h EXCEPT !.escaped = "IndexError", !.calls = d.calls, !.leak = d.leak]
    ELSE IF ~d.ret.success
         THEN [h EXCEPT !.reply = "fail", !.msg = d.ret.msg, !.calls = d.calls,
                        !.leak = d.leak]
    ELSE IF f.raised # "none"
         THEN [h EXCEPT !.escaped = f.raised, !.calls = d.calls + f.calls,
                        !.leak = d.leak + f.leak]
    ELSE [h EXCEPT !.reply = "ok", !.msg = d.ret.msg, !.shown = f.shown,
                   !.calls = d.calls + f.calls, !.leak = d.leak + f.leak]

DeleteDone(tbl, arg, d, m, now, up, cm) ==
    [h |-> DeleteReply(Handled("delete_balance", arg, tbl), d, m,
                       format_balance_table(d.tbl, PyStr(m.s), now, up, cm)),
     tbl |-> d.tbl]

\* /delete_balance
delete_balance(tbl, arg, now, up, cm) ==
    DeleteDone(tbl, arg, delete_balance_entry_by_date(tbl, arg, up),
               Piece2(Split(arg)), now, up, cm)

(***************************************************************************)
(* The arguments the commands are sent with.                               *)
(***************************************************************************)
Digits2(n) == <<DigitChars[((n \div 10) % 10) + 1], DigitChars[(n % 10) + 1]>>

\* a date as YYYY-MM-DD
DateText(dt) ==
    Digits2(dt[1] \div 100) \o Digits2(dt[1] % 100) \o <<"-">> \o Digits2(dt[2])
    \o <<"-">> \o Digits2(dt[3])

NoArg == <<>>

BadTexts == {<<"x">>, <<"2", "0", "2", "5", "-", "1", "3", "-", "0", "1">>}

MonthArgs ==
    {NoArg, <<"1">>, <<"2">>, <<"2", " ">>, <<"0">>, <<"1", "3">>, <<"x">>}

DateArgs ==
    {NoArg, <<"2", "0", "2", "5", "-", "2", "-", "1">>}
    \cup {DateText(dt) : dt \in Dates} \cup BadTexts

(***************************************************************************)
(* The state machine.                                                      *)
(***************************************************************************)
Init ==
    /\ table = {}
    /\ today \in RunDates
    /\ CURRENT_MONTH = today[2]
    /\ dbUp = TRUE
    /\ openConns = 0
    /\ last = Idle

\* a command is handled: the table its handler leaves is committed; the
\* bounds keep the table and the open connections small
SendBalance ==
    \E arg \in MonthArgs :
        LET o == send_balance(table, arg, today, dbUp, CURRENT_MONTH)
        IN  /\ openConns + o.h.leak <= MaxOpenConns
            /\ table' = o.tbl
            /\ openConns' = openConns + o.h.leak
            /\ last' = o.h
            /\ UNCHANGED <<today, CURRENT_MONTH, dbUp>>

UpdateBalance ==
    \E arg \in DateArgs :
        LET o == update_balance(table, arg, today, dbUp, CURRENT_MONTH)
        IN  /\ Cardinality(o.tbl) <= MaxEntries
            /\ openConns + o.h.leak <= MaxOpenConns
            /\ table' = o.tbl
            /\ openConns' = openConns + o.h.leak
            /\ last' = o.h
            /\ UNCHANGED <<today, CURRENT_MONTH, dbUp>>

DeleteBalance ==
    \E arg \in DateArgs :
        LET o == delete_balance(table, arg, today, dbUp, CURRENT_MONTH)
        IN  /\ openConns + o.h.leak <= MaxOpenConns
            /\ table' = o.tbl
            /\ openConns' = openConns + o.h.leak
            /\ last' = o.h
            /\ UNCHANGED <<today, CURRENT_MONTH, dbUp>>

\* the calendar moves on
Tick ==
    /\ \E dt \in RunDates : DateLess(today, dt) /\ today' = dt
    /\ last' = Idle
    /\ UNCHANGED <<table, CURRENT_MONTH, dbUp, openConns>>

\* the store becomes unreachable
StoreDown ==
    /\ dbUp
    /\ dbUp' = FALSE
    /\ last' = Idle
    /\ UNCHANGED <<table, today, CURRENT_MONTH, openConns>>

\* the store becomes reachable again
StoreUp ==
    /\ ~dbUp
    /\ dbUp' = TRUE
    /\ last' = Idle
    /\ UNCHANGED <<table, today, CURRENT_MONTH, openConns>>

Next ==
    \/ SendBalance
    \/ UpdateBalance
    \/ DeleteBalance
    \/ Tick
    \/ StoreDown
    \/ StoreUp

Spec == Init /\ [][Next]_vars

(***************************************************************************)
(* Properties.  In a state where last is not Idle, today and dbUp are the  *)
(* date and the store's reachability at the time the command was handled.  *)
(***************************************************************************)
\* the stored entries of the year and month of dt, up to dt
SameMonthUpTo(tbl, dt) ==
    {q \in tbl : q.date[1] = dt[1] /\ q.date[2] = dt[2] /\ DateLeq(q.date, dt)}

\* every listing the command made: the rows get_all_balance_entries returned
\* to the handler and the rows written into the reply
Listings == {last.entries.rows, last.shown}

\* the date /update_balance adds: the argument's, or today
AddDate == IF Strip(last.arg) = <<>> THEN [ok |-> TRUE, date |-> today]
           ELSE StrpTime(Strip(last.arg))

\* the month argument of /balance is given and is no integer in 1..12
BadMonthArg ==
    /\ Strip(last.arg) # <<>>
    /\ ~IntOfStr(last.arg).ok \/ IntOfStr(last.arg).val \notin 1..12

\* C1: every row a month listing returns carries as balance the sum of price
\* over the stored entries of the row's year and month dated up to the row's
\* date, which is 20 times the row's rank by date within its year and month.
C1_MonthlyBalance ==
    \A rows \in Listings : \A i \in 1..Len(rows) :
        LET upto == SameMonthUpTo(table, rows[i].date)
        IN  /\ rows[i].monthly_balance = SumPrice(upto)
            /\ rows[i].monthly_balance = 20 * Cardinality(upto)

\* a listing of both years' February with two entries in one of them
C1_Witness ==
    /\ last.cmd = "balance"
    /\ Len(last.entries.rows) >= 3
    /\ \E i, j \in 1..Len(last.entries.rows) :
          /\ last.entries.rows[i].date[1] # last.entries.rows[j].date[1]
          /\ last.entries.rows[i].monthly_balance = 40

\* C2: adding for a date that already has an entry leaves the table as it
\* was and answers with the "already updated" failure, raising nothing
\* (the store being reachable, so that the date is looked up).
C2_DuplicateAdd ==
    (/\ last.cmd = "update_balance"
     /\ dbUp
     /\ AddDate.ok
     /\ HasDate(last.before, AddDate.date))
    => /\ table = last.before
       /\ last.reply = "warn"
       /\ last.msg = "already_updated"
       /\ last.escaped = "none"

C2_Witness ==
    /\ last.cmd = "update_balance"
    /\ last.msg = "already_updated"
    /\ HasDate(table, AddDate.date)
    /\ Cardinality(table) >= 2

\* C3: deleting a date that has no entry answers "not found" and leaves the
\* table as it was; a successful delete removes the one row of that date and
\* no other (the store being reachable and the argument a date).
C3_Delete ==
    (/\ last.cmd = "delete_balance"
     /\ dbUp
     /\ PgDateIn(last.arg).ok)
    => LET dt == PgDateIn(last.arg).date
       IN  IF HasDate(last.before, dt)
           THEN /\ last.msg = "deleted"
                /\ last.reply = "ok"
                /\ table = {r \in last.before : r.date # dt}
                /\ Cardinality(table) = Cardinality(last.before) - 1
           ELSE /\ last.msg = "not_found"
                /\ last.reply = "fail"
                /\ table = last.before

\* a delete that left another entry of the same month of the year behind
C3_Witness ==
    /\ last.cmd = "delete_balance"
    /\ last.msg = "deleted"
    /\ \E r \in table : r.date[2] = PgDateIn(last.arg).date[2]

\* C4: with the store reachable, whatever the argument, no exception leaves
\* the handler and a reply is sent; /delete_balance with no date replies
\* with the format instruction and makes no store call.
C4_NoEscape ==
    (last.cmd # "none" /\ dbUp)
    => /\ last.escaped = "none"
       /\ last.reply # "none"
       /\ (last.cmd = "delete_balance" /\ last.arg = <<>>)
          => (last.msg = "date_format" /\ last.calls = 0)

\* C5: a month that is no integer in 1..12 is answered with the
\* invalid-month result and no ledger row is returned or displayed.
C5_BadMonthRejected ==
    (last.cmd = "balance" /\ BadMonthArg)
    => /\ last.entries.kind = "text"
       /\ last.entries.rows = <<>>
       /\ last.shown = <<>>

\* C6: after any command, no store connection is open.
C6_NoOpenConnection == openConns = 0

\* C7: with the store unreachable, a command that calls it ends with a
\* failure reply and no exception leaves the handler.
C7_UnreachableStore ==
    (last.cmd # "none" /\ ~dbUp /\ last.calls > 0)
    => /\ last.escaped = "none"
       /\ last.reply \in {"error", "fail"}

\* C8: the table holds at most one entry per date; an add succeeds only if
\* the date had no entry just before and then adds that one row and changes
\* no other; a delete only removes rows of its date; nothing else changes
\* the table.
C8_OneEntryPerDate ==
    /\ \A r, q \in table : r.date = q.date => r = q
    /\ last.cmd = "update_balance" =>
          IF last.reply = "ok"
          THEN /\ AddDate.ok
               /\ ~HasDate(last.before, AddDate.date)
               /\ last.before \subseteq table
               /\ Cardinality(table) = Cardinality(last.before) + 1
               /\ \A r \in table \ last.before : r.date = AddDate.date
          ELSE table = last.before
    /\ last.cmd = "delete_balance" =>
          /\ table \subseteq last.before
          /\ \A r \in last.before \ table :
                last.reply = "ok" /\ r.date = PgDateIn(last.arg).date
    /\ last.cmd = "balance" => table = last.before

\* an add that succeeded for a date earlier than one the table already held
C8_Witness ==
    /\ last.cmd = "update_balance"
    /\ last.reply = "ok"
    /\ \E r \in last.before : DateLess(AddDate.date, r.date)

\* C9: /balance with no month decides by, and displays, the entries of the
\* month current when the command is handled.
C9_CurrentMonth ==
    (last.cmd = "balance" /\ Strip(last.arg) = <<>> /\ last.escaped = "none")
    => /\ last.entries.rows = MonthQuery(table, today[2])
       /\ last.shown = MonthQuery(table, today[2])

\* C10: listing month m of 1..12 returns the stored entries of that month of
\* the year, of every year, each once, in strictly ascending date order, the
\* balance starting again at the first entry of each year.
C10_MonthListing ==
    (/\ last.cmd = "balance"
     /\ IntOfStr(last.arg).ok
     /\ IntOfStr(last.arg).val \in 1..12
     /\ last.escaped = "none")
    => LET m == IntOfStr(last.arg).val
           rows == last.entries.rows
           stored == {r \in table : r.date[2] = m}
       IN  /\ Len(rows) = Cardinality(stored)
           /\ \A r \in stored : \E i \in 1..Len(rows) :
                 /\ rows[i].date = r.date
                 /\ rows[i].day_of_week = r.day_of_week
                 /\ rows[i].price = r.price
           /\ \A i, j \in 1..Len(rows) : i < j => DateLess(rows[i].date, rows[j].date)
           /\ \A i \in 1..Len(rows) :
                 (i = 1 \/ rows[i - 1].date[1] # rows[i].date[1])
                 => rows[i].monthly_balance = rows[i].price

\* a listing by month number that spans two years
C10_Witness ==
    /\ last.cmd = "balance"
    /\ IntOfStr(last.arg).ok
    /\ IntOfStr(last.arg).val = 2
    /\ Len(last.entries.rows) >= 2
    /\ last.entries.rows[1].date[1] # last.entries.rows[Len(last.entries.rows)].date[1]

=============================================================================
